---------------------------- MODULE Spec2Model ----------------------------
(***************************************************************************)
(* Model of internal/fusefrontend/xattr_linux.go: the symlink-safe         *)
(* extended-attribute gateway of gocryptfs (getXattr, setXattr,            *)
(* removeXAttr, listXAttr on top of getFileFd and /proc/self/fd).          *)
(*                                                                         *)
(* Several FUSE worker goroutines run the four operations concurrently.    *)
(* Every operation is cut at its system calls: the call up to the return   *)
(* of getFileFd, the attribute syscall, and the deferred file.Release().   *)
(* A concurrent actor renames paths and replaces them by symlinks.         *)
(***************************************************************************)
EXTENDS Integers, Sequences, FiniteSets, TLC

(* ------------------------------ bounds -------------------------------- *)
NumProcs == 2
MaxOps == 3
MaxOverlapOps == 2
MaxEnvSteps == 1
MaxByte == 1
FirstFd == 9

(* ----------------------------- universe ------------------------------- *)
Procs == 1..NumProcs
Inodes == {"i1", "i2"}
Paths == {<<"a">>, <<"b">>}
Fds == FirstFd..(FirstFd + MaxOps)
Values == {<<>>} \cup {<<b>> : b \in 1..MaxByte}
XattrFlags == {0, 1, 2}
AttrNames ==
  { <<"u","s","e","r",".","a">>,
    <<"t","r","u","s","t","e","d",".","a">> }

Nil == "nil"
NoIno == "noino"

VARIABLES dir, attrs, fdTable, proc, out, hist, nOps, nEnv

vars == <<dir, attrs, fdTable, proc, out, hist, nOps, nEnv>>

(* --------------------------- pure functions --------------------------- *)
xattrUserPrefix == <<"u","s","e","r",".">>

HasPrefix(s, prefix) ==
  /\ Len(s) >= Len(prefix)
  /\ SubSeq(s, 1, Len(prefix)) = prefix

(* Faulty variant: the negation is missing.                                *)
disallowedXAttrNameNoNegation(attr) == HasPrefix(attr, xattrUserPrefix)

disallowedXAttrName(attr) == ~HasPrefix(attr, xattrUserPrefix)

DigitChar == <<"0","1","2","3","4","5","6","7","8","9">>

RECURSIVE Itoa(_)
Itoa(n) ==
  IF n < 0 THEN <<"-">> \o Itoa(-n)
  ELSE IF n < 10 THEN <<DigitChar[n + 1]>>
  ELSE Itoa(n \div 10) \o <<DigitChar[(n % 10) + 1]>>

procFd(fd) == <<"proc", "self", "fd", Itoa(fd)>>


(* ----------------- the operating system (environment) ----------------- *)
File(ino) == [kind |-> "file", ino |-> ino, target |-> <<>>]
Symlink(target) == [kind |-> "symlink", ino |-> NoIno, target |-> target]
NoEntry == [kind |-> "absent", ino |-> NoIno, target |-> <<>>]

OpenFile(ino, owner) == [ino |-> ino, owner |-> owner]
Closed == [ino |-> NoIno, owner |-> 0]

Absent == [present |-> FALSE, val |-> <<>>]
Present(v) == [present |-> TRUE, val |-> v]

(* A Go slice: nil, or its elements. *)
NilSlice == [nil |-> TRUE, val |-> <<>>]
Slice(v) == [nil |-> FALSE, val |-> v]

NoHandle == [kind |-> "nil", fd |-> -1]

IsDigits(s) ==
  /\ Len(s) > 0
  /\ \A i \in 1..Len(s) : \E d \in 1..10 : DigitChar[d] = s[i]

DigitVal(c) == (CHOOSE d \in 1..10 : DigitChar[d] = c) - 1

RECURSIVE Atoi(_)
Atoi(s) ==
  IF Len(s) = 0 THEN 0
  ELSE Atoi(SubSeq(s, 1, Len(s) - 1)) * 10 + DigitVal(s[Len(s)])

(* Path walk of a name in the backing directory, following symlinks. *)
RECURSIVE Follow(_, _)
Follow(path, depth) ==
  IF path \notin Paths \/ dir[path].kind = "absent"
    THEN [err |-> "ENOENT", ino |-> NoIno, owner |-> 0]
  ELSE IF dir[path].kind = "file"
    THEN [err |-> Nil, ino |-> dir[path].ino, owner |-> 0]
  ELSE IF depth = 0
    THEN [err |-> "ELOOP", ino |-> NoIno, owner |-> 0]
  ELSE Follow(dir[path].target, depth - 1)

IsProcFd(path) ==
  /\ Len(path) = 4
  /\ SubSeq(path, 1, 3) = <<"proc", "self", "fd">>

(* What a path handed to getxattr & co. resolves to: /proc/self/fd/<n> is  *)
(* the open file behind descriptor n, anything else is walked by name.     *)
OsResolve(path) ==
  IF IsProcFd(path)
    THEN IF /\ IsDigits(path[4])
            /\ Atoi(path[4]) \in Fds
            /\ fdTable[Atoi(path[4])] # Closed
           THEN [err |-> Nil,
                 ino |-> fdTable[Atoi(path[4])].ino,
                 owner |-> fdTable[Atoi(path[4])].owner]
           ELSE [err |-> "ENOENT", ino |-> NoIno, owner |-> 0]
    ELSE Follow(path, Cardinality(Paths))

OsGetxattr(path, name, fault) ==
  LET r == OsResolve(path) IN
  IF fault THEN [err |-> "EIO", val |-> <<>>]
  ELSE IF r.err # Nil THEN [err |-> r.err, val |-> <<>>]
  ELSE IF attrs[r.ino][name] = Absent THEN [err |-> "ENODATA", val |-> <<>>]
  ELSE [err |-> Nil, val |-> attrs[r.ino][name].val]

OsSetxattr(path, name, val, flags, fault) ==
  LET r == OsResolve(path) IN
  IF fault THEN [err |-> "EIO", attrs |-> attrs]
  ELSE IF r.err # Nil THEN [err |-> r.err, attrs |-> attrs]
  ELSE IF flags = 1 /\ attrs[r.ino][name] # Absent
    THEN [err |-> "EEXIST", attrs |-> attrs]
  ELSE IF flags = 2 /\ attrs[r.ino][name] = Absent
    THEN [err |-> "ENODATA", attrs |-> attrs]
  ELSE [err |-> Nil, attrs |-> [attrs EXCEPT ![r.ino][name] = Present(val)]]

OsRemovexattr(path, name, fault) ==
  LET r == OsResolve(path) IN
  IF fault THEN [err |-> "EIO", attrs |-> attrs]
  ELSE IF r.err # Nil THEN [err |-> r.err, attrs |-> attrs]
  ELSE IF attrs[r.ino][name] = Absent
    THEN [err |-> "ENODATA", attrs |-> attrs]
  ELSE [err |-> Nil, attrs |-> [attrs EXCEPT ![r.ino][name] = Absent]]

OsListxattr(path, fault) ==
  LET r == OsResolve(path) IN
  IF fault THEN [err |-> "EIO", names |-> {}]
  ELSE IF r.err # Nil THEN [err |-> r.err, names |-> {}]
  ELSE [err |-> Nil, names |-> {n \in AttrNames : attrs[r.ino][n] # Absent}]

(* The orders in which the kernel may hand back a set of names. *)
Orderings(S) ==
  {s \in [1..Cardinality(S) -> S] : \A i, j \in 1..Cardinality(S) : s[i] = s[j] => i = j}

Range(s) == {s[i] : i \in 1..Len(s)}

(* ------------------- collaborators of this file ----------------------- *)
FreeFds(fds) == {fd \in Fds : fds[fd] = Closed}

LowestFree(fds) == CHOOSE fd \in FreeFds(fds) : \A g \in FreeFds(fds) : fd <= g

(* fs.Open(relPath, O_RDONLY|O_NONBLOCK): never follows a final symlink.   *)
(* "kind" is the dynamic type of the nodefs.File it hands back.            *)
Open(p, relPath, kind) ==
  IF dir[relPath].kind = "absent"
    THEN [status |-> "ENOENT", handle |-> NoHandle, fds |-> fdTable, ino |-> NoIno]
  ELSE IF dir[relPath].kind = "symlink"
    THEN [status |-> "ELOOP", handle |-> NoHandle, fds |-> fdTable, ino |-> NoIno]
  ELSE IF FreeFds(fdTable) = {}
    THEN [status |-> "EMFILE", handle |-> NoHandle, fds |-> fdTable, ino |-> NoIno]
  ELSE [status |-> "OK",
        handle |-> [kind |-> kind, fd |-> LowestFree(fdTable)],
        fds |-> [fdTable EXCEPT ![LowestFree(fdTable)] = OpenFile(dir[relPath].ino, p)],
        ino |-> dir[relPath].ino]

(* File.Release(): closes the descriptor behind the handle. *)
ReleaseFile(fds, handle) == [fds EXCEPT ![handle.fd] = Closed]

(* unpackXattrErr: the errno of the xattr error as a fuse.Status. *)
unpackXattrErr(err) == IF err = Nil THEN "OK" ELSE err

(* ----------------------------- getFileFd ------------------------------ *)
(* Faulty variant: the handle that failed the cast is not released.        *)
getFileFdLeakOnMiscast(p, relPath, kind) ==
  LET o == Open(p, relPath, kind) IN
  IF o.status # "OK"
    THEN [file |-> NoHandle, fd |-> -1, status |-> o.status, fds |-> o.fds,
          rel |-> 0, warned |-> FALSE, miscast |-> FALSE, ino |-> NoIno]
  ELSE IF o.handle.kind # "File"
    THEN [file |-> NoHandle, fd |-> -1, status |-> "EIO", fds |-> o.fds,
          rel |-> 0, warned |-> TRUE, miscast |-> TRUE, ino |-> o.ino]
  ELSE [file |-> o.handle, fd |-> o.handle.fd, status |-> "OK", fds |-> o.fds,
        rel |-> 0, warned |-> FALSE, miscast |-> FALSE, ino |-> o.ino]

getFileFd(p, relPath, kind) ==
  LET o == Open(p, relPath, kind) IN
  IF o.status # "OK"
    THEN [file |-> NoHandle, fd |-> -1, status |-> o.status, fds |-> o.fds,
          rel |-> 0, warned |-> FALSE, miscast |-> FALSE, ino |-> NoIno]
  ELSE IF o.handle.kind # "File"
    THEN [file |-> NoHandle, fd |-> -1, status |-> "EIO",
          fds |-> ReleaseFile(o.fds, o.handle),
          rel |-> 1, warned |-> TRUE, miscast |-> TRUE, ino |-> o.ino]
  ELSE [file |-> o.handle, fd |-> o.handle.fd, status |-> "OK", fds |-> o.fds,
        rel |-> 0, warned |-> FALSE, miscast |-> FALSE, ino |-> o.ino]

(* ------------------------ state of a goroutine ------------------------ *)
(* History of one (inode, name) as seen through the gateway's results. *)
Never == [state |-> "never", val |-> <<>>]
Removed == [state |-> "removed", val |-> <<>>]
WasSet(v) == [state |-> "set", val |-> v]

NoSys ==
  [issued |-> FALSE, target |-> <<>>, name |-> <<>>, ino |-> NoIno, owner |-> 0,
   moved |-> FALSE]

(* The attribute syscall as the kernel saw it: its path argument, its name *)
(* argument, the open file the path resolved to at that moment, and        *)
(* whether the name the operation was given had by then stopped naming the *)
(* file its open resolved.                                                 *)
Issued(f, target, name) ==
  LET r == OsResolve(target) IN
  [issued |-> TRUE, target |-> target, name |-> name, ino |-> r.ino, owner |-> r.owner,
   moved |-> dir[f.relPath] # File(f.ino)]

(* pc, the arguments, the locals and the results are the goroutine's own;  *)
(* acq, ino, rel, relOwner, sys, warned, miscast, expect, expNames and     *)
(* faulted record what happened during the operation.                      *)
Idle ==
  [pc |-> "idle", op |-> "none",
   relPath |-> <<>>, cAttr |-> <<>>, cData |-> <<>>, flags |-> 0,
   file |-> NoHandle, fd |-> -1, status |-> "OK", ret |-> NilSlice,
   acq |-> "none", ino |-> NoIno, rel |-> 0, relOwner |-> "none", who |-> 0, sys |-> NoSys,
   warned |-> FALSE, miscast |-> FALSE,
   expect |-> Never, expNames |-> {}, faulted |-> FALSE]

(* The frame of an operation whose getFileFd succeeded: it goes on to the   *)
(* attribute syscall with its arguments and the handle.                    *)
Frame(op, relPath, cAttr, cData, flags, g) ==
  [Idle EXCEPT !.pc = "syscall", !.op = op, !.relPath = relPath, !.cAttr = cAttr,
               !.cData = cData, !.flags = flags,
               !.file = g.file, !.fd = g.fd, !.acq = g.status, !.ino = g.ino,
               !.rel = g.rel]

(* What an operation hands back when it returns right after getFileFd     *)
(* failed.                                                                 *)
EarlyReturn(p, op, relPath, g, status) ==
  [Idle EXCEPT !.pc = "returned", !.op = op, !.status = status, !.ret = NilSlice,
               !.who = p, !.relPath = relPath,
               !.file = g.file, !.fd = g.fd, !.acq = g.status,
               !.rel = g.rel, !.warned = g.warned, !.miscast = g.miscast]

(* One step of a call: getFileFd succeeded and worker p goes on with frame *)
(* f, or it failed and the operation returns "early" at once.              *)
Enter(p, g, f, early) ==
  /\ fdTable' = g.fds
  /\ IF g.status # "OK"
       THEN proc' = proc /\ out' = early
       ELSE proc' = [proc EXCEPT ![p] = f] /\ out' = Idle

(* An operation past its attribute syscall: the return values are set, the *)
(* deferred Release is still to run. The arguments are dead by now.        *)
Result(f, status, ret, sys, fault) ==
  [f EXCEPT !.pc = "release", !.status = status, !.ret = ret, !.sys = sys,
            !.relPath = <<>>, !.cData = <<>>, !.flags = 0,
            !.expect = IF f.op \in {"get", "remove"} /\ ~fault
                         THEN hist[f.ino][f.cAttr]
                         ELSE Never,
            !.expNames = IF f.op = "list" /\ ~fault
                           THEN {n \in AttrNames : hist[f.ino][n].state = "set"}
                           ELSE {},
            !.faulted = fault]

Init ==
  /\ dir = [path \in Paths |-> IF path = <<"a">> THEN File("i1") ELSE File("i2")]
  /\ attrs = [i \in Inodes |-> [n \in AttrNames |-> Absent]]
  /\ fdTable = [fd \in Fds |-> Closed]
  /\ proc = [p \in Procs |-> Idle]
  /\ out = Idle
  /\ hist = [i \in Inodes |-> [n \in AttrNames |-> Never]]
  /\ nOps = [p \in Procs |-> 0]
  /\ nEnv = 0

RECURSIVE SumTo(_, _)
SumTo(f, n) == IF n = 0 THEN 0 ELSE f[n] + SumTo(f, n - 1)

Total(f) == SumTo(f, NumProcs)

(* The workers are interchangeable, so they are numbered by how many       *)
(* requests they serve: of MaxOps requests the p-th busiest worker serves  *)
(* at most MaxOps \div p.                                                  *)
Budget(p) == MaxOps \div p

(* A worker picks up the next request once its previous one has returned. *)
(* Requests overlap only among the first MaxOverlapOps of them.            *)
Begin(p) ==
  /\ proc[p].pc = "idle"
  /\ Total(nOps) < MaxOps
  /\ nOps[p] < Budget(p)
  /\ (\E q \in Procs : proc[q].pc # "idle") => Total(nOps) < MaxOverlapOps
  /\ nOps' = [nOps EXCEPT ![p] = @ + 1]

(* ------------------------------ getXattr ------------------------------ *)
getXattrCall(p, relPath, cAttr, kind) ==
  LET g == getFileFd(p, relPath, kind)
  IN /\ Begin(p)
     /\ Enter(p, g, Frame("get", relPath, cAttr, <<>>, 0, g),
              EarlyReturn(p, "get", relPath, g, g.status))
     /\ UNCHANGED <<dir, attrs, hist, nEnv>>

getXattrAt(p, target, fault) ==
  LET r == OsGetxattr(target, proc[p].cAttr, fault)
  IN /\ proc[p].pc = "syscall"
     /\ proc[p].op = "get"
     /\ proc' = [proc EXCEPT ![p] =
          IF r.err # Nil
            THEN Result(@, unpackXattrErr(r.err), NilSlice, Issued(@, target, @.cAttr), fault)
            ELSE Result(@, "OK", Slice(r.val), Issued(@, target, @.cAttr), fault)]
     /\ out' = Idle
     /\ UNCHANGED <<dir, attrs, fdTable, hist, nOps, nEnv>>

(* Faulty variant: the error of the syscall is ignored and the (empty)     *)
(* buffer returned with OK.                                                *)
getXattrSyscallIgnoreErr(p, fault) ==
  LET target == procFd(proc[p].fd)
      r == OsGetxattr(target, proc[p].cAttr, fault)
  IN /\ proc[p].pc = "syscall"
     /\ proc[p].op = "get"
     /\ proc' = [proc EXCEPT ![p] =
          Result(@, "OK", Slice(r.val), Issued(@, target, @.cAttr), fault)]
     /\ out' = Idle
     /\ UNCHANGED <<dir, attrs, fdTable, hist, nOps, nEnv>>

(* Faulty variant: Release is called before the successful return only, so *)
(* the error return leaves without it.                                     *)
getXattrSyscallNoDefer(p, fault) ==
  LET r == OsGetxattr(procFd(proc[p].fd), proc[p].cAttr, fault)
  IN /\ proc[p].pc = "syscall"
     /\ proc[p].op = "get"
     /\ IF r.err # Nil
          THEN /\ out' = [Idle EXCEPT !.pc = "returned", !.who = p, !.op = "get",
                                      !.acq = proc[p].acq,
                                      !.status = unpackXattrErr(r.err),
                                      !.rel = proc[p].rel]
               /\ proc' = [proc EXCEPT ![p] = Idle]
          ELSE /\ out' = Idle
               /\ proc' = [proc EXCEPT ![p] =
                    Result(@, "OK", Slice(r.val),
                           Issued(@, procFd(proc[p].fd), @.cAttr), fault)]
     /\ UNCHANGED <<dir, attrs, fdTable, hist, nOps, nEnv>>

getXattrSyscall(p, fault) == getXattrAt(p, procFd(proc[p].fd), fault)

(* ------------------------------ setXattr ------------------------------ *)
setXattrCall(p, relPath, cAttr, cData, flags, kind) ==
  LET g == getFileFd(p, relPath, kind)
  IN /\ Begin(p)
     /\ Enter(p, g, Frame("set", relPath, cAttr, cData, flags, g),
              EarlyReturn(p, "set", relPath, g, g.status))
     /\ UNCHANGED <<dir, attrs, hist, nEnv>>

setXattrAt(p, target, fault) ==
  LET r == OsSetxattr(target, proc[p].cAttr, proc[p].cData, proc[p].flags, fault)
      st == unpackXattrErr(r.err)
  IN /\ proc[p].pc = "syscall"
     /\ proc[p].op = "set"
     /\ attrs' = r.attrs
     /\ proc' = [proc EXCEPT ![p] =
          Result(@, st, NilSlice, Issued(@, target, @.cAttr), fault)]
     /\ hist' = IF st = "OK"
                  THEN [hist EXCEPT ![proc[p].ino][proc[p].cAttr] = WasSet(proc[p].cData)]
                  ELSE hist
     /\ out' = Idle
     /\ UNCHANGED <<dir, fdTable, nOps, nEnv>>

(* Faulty variant: the attribute syscall is addressed to the path the      *)
(* operation was given instead of the alias of its descriptor.             *)
setXattrSyscallByPath(p, fault) == setXattrAt(p, proc[p].relPath, fault)

(* Faulty variant: the error of the syscall is dropped and OK returned.    *)
setXattrSyscallDropErr(p, fault) ==
  LET target == procFd(proc[p].fd)
      r == OsSetxattr(target, proc[p].cAttr, proc[p].cData, proc[p].flags, fault)
  IN /\ proc[p].pc = "syscall"
     /\ proc[p].op = "set"
     /\ attrs' = r.attrs
     /\ hist' = [hist EXCEPT ![proc[p].ino][proc[p].cAttr] = WasSet(proc[p].cData)]
     /\ proc' = [proc EXCEPT ![p] =
          Result(@, "OK", NilSlice, Issued(@, target, @.cAttr), fault)]
     /\ out' = Idle
     /\ UNCHANGED <<dir, fdTable, nOps, nEnv>>

setXattrSyscall(p, fault) == setXattrAt(p, procFd(proc[p].fd), fault)

(* ----------------------------- removeXAttr ----------------------------  *)
(* Faulty variant: a failure of getFileFd is reported as a generic EIO.    *)
removeXAttrCallWrongStatus(p, relPath, cAttr, kind) ==
  LET g == getFileFd(p, relPath, kind)
  IN /\ Begin(p)
     /\ Enter(p, g, Frame("remove", relPath, cAttr, <<>>, 0, g),
              EarlyReturn(p, "remove", relPath, g, "EIO"))
     /\ UNCHANGED <<dir, attrs, hist, nEnv>>

(* Faulty variant: file.Release() runs right after getFileFd instead of    *)
(* being deferred to the return.                                           *)
removeXAttrCallEarlyRelease(p, relPath, cAttr, kind) ==
  LET g == getFileFd(p, relPath, kind)
  IN /\ Begin(p)
     /\ Enter(p, [g EXCEPT !.fds = IF g.status = "OK" THEN ReleaseFile(g.fds, g.file)
                                   ELSE g.fds],
              Frame("remove", relPath, cAttr, <<>>, 0, g),
              EarlyReturn(p, "remove", relPath, g, g.status))
     /\ UNCHANGED <<dir, attrs, hist, nEnv>>

removeXAttrCall(p, relPath, cAttr, kind) ==
  LET g == getFileFd(p, relPath, kind)
  IN /\ Begin(p)
     /\ Enter(p, g, Frame("remove", relPath, cAttr, <<>>, 0, g),
              EarlyReturn(p, "remove", relPath, g, g.status))
     /\ UNCHANGED <<dir, attrs, hist, nEnv>>

removeXAttrAt(p, target, fault) ==
  LET r == OsRemovexattr(target, proc[p].cAttr, fault)
      st == unpackXattrErr(r.err)
  IN /\ proc[p].pc = "syscall"
     /\ proc[p].op = "remove"
     /\ attrs' = r.attrs
     /\ proc' = [proc EXCEPT ![p] =
          Result(@, st, NilSlice, Issued(@, target, @.cAttr), fault)]
     /\ hist' = IF st = "OK"
                  THEN [hist EXCEPT ![proc[p].ino][proc[p].cAttr] = Removed]
                  ELSE hist
     /\ out' = Idle
     /\ UNCHANGED <<dir, fdTable, nOps, nEnv>>

removeXAttrSyscall(p, fault) == removeXAttrAt(p, procFd(proc[p].fd), fault)

(* ------------------------------ listXAttr -----------------------------  *)
(* Faulty variant: ELOOP is passed on like any other status.               *)
listXAttrCallNoSpecialCase(p, relPath, kind) ==
  LET g == getFileFd(p, relPath, kind)
  IN /\ Begin(p)
     /\ Enter(p, g, Frame("list", relPath, <<>>, <<>>, 0, g),
              EarlyReturn(p, "list", relPath, g, g.status))
     /\ UNCHANGED <<dir, attrs, hist, nEnv>>

listXAttrCall(p, relPath, kind) ==
  LET g == getFileFd(p, relPath, kind)
  IN /\ Begin(p)
     /\ Enter(p, g, Frame("list", relPath, <<>>, <<>>, 0, g),
              IF g.status = "ELOOP"
                THEN EarlyReturn(p, "list", relPath, g, "OK")
                ELSE EarlyReturn(p, "list", relPath, g, g.status))
     /\ UNCHANGED <<dir, attrs, hist, nEnv>>

listXAttrAt(p, target, fault) ==
  LET r == OsListxattr(target, fault)
  IN /\ proc[p].pc = "syscall"
     /\ proc[p].op = "list"
     /\ \E cNames \in Orderings(r.names) :
          proc' = [proc EXCEPT ![p] =
            IF r.err # Nil
              THEN Result(@, unpackXattrErr(r.err), NilSlice, Issued(@, target, <<>>), fault)
              ELSE Result(@, "OK", Slice(cNames), Issued(@, target, <<>>), fault)]
     /\ out' = Idle
     /\ UNCHANGED <<dir, attrs, fdTable, hist, nOps, nEnv>>

(* Faulty variant: the last name of the kernel's list is cut off.          *)
listXAttrSyscallDropLast(p, fault) ==
  LET target == procFd(proc[p].fd)
      r == OsListxattr(target, fault)
  IN /\ proc[p].pc = "syscall"
     /\ proc[p].op = "list"
     /\ \E cNames \in Orderings(r.names) :
          proc' = [proc EXCEPT ![p] =
            IF r.err # Nil
              THEN Result(@, unpackXattrErr(r.err), NilSlice, Issued(@, target, <<>>), fault)
              ELSE Result(@, "OK", Slice(SubSeq(cNames, 1, Len(cNames) - 1)),
                          Issued(@, target, <<>>), fault)]
     /\ out' = Idle
     /\ UNCHANGED <<dir, attrs, fdTable, hist, nOps, nEnv>>

listXAttrSyscall(p, fault) == listXAttrAt(p, procFd(proc[p].fd), fault)

(* ------------------- the deferred file.Release() ---------------------- *)
Release(p) ==
  /\ proc[p].pc = "release"
  /\ fdTable' = ReleaseFile(fdTable, proc[p].file)
  /\ out' = [Idle EXCEPT !.pc = "returned", !.who = p, !.op = proc[p].op,
                         !.acq = proc[p].acq, !.status = proc[p].status,
                         !.rel = proc[p].rel + 1,
                         !.relOwner = IF fdTable[proc[p].file.fd] = Closed THEN "closed"
                                      ELSE IF fdTable[proc[p].file.fd].owner = p THEN "self"
                                      ELSE "other"]
  /\ proc' = [proc EXCEPT ![p] = Idle]
  /\ UNCHANGED <<dir, attrs, hist, nOps, nEnv>>

(* ------------------------ the concurrent actor ------------------------ *)
(* The two files start out alike, so the actor's first move is taken on    *)
(* the first of them.                                                      *)
FirstPath == <<"a">>

EnvRename(src, dst) ==
  /\ nEnv < MaxEnvSteps
  /\ nEnv = 0 => src = FirstPath
  /\ src # dst
  /\ dir[src].kind # "absent"
  /\ dir' = [dir EXCEPT ![dst] = dir[src], ![src] = NoEntry]
  /\ nEnv' = nEnv + 1
  /\ out' = Idle
  /\ UNCHANGED <<attrs, fdTable, proc, hist, nOps>>

EnvSymlink(path, target) ==
  /\ nEnv < MaxEnvSteps
  /\ nEnv = 0 => path = FirstPath
  /\ path # target
  /\ dir' = [dir EXCEPT ![path] = Symlink(target)]
  /\ nEnv' = nEnv + 1
  /\ out' = Idle
  /\ UNCHANGED <<attrs, fdTable, proc, hist, nOps>>

HandleKinds == {"File", "other"}

Next ==
  \/ \E p \in Procs, relPath \in Paths, cAttr \in AttrNames, kind \in HandleKinds :
       getXattrCall(p, relPath, cAttr, kind)
  \/ \E p \in Procs, fault \in BOOLEAN : getXattrSyscall(p, fault)
  \/ \E p \in Procs, relPath \in Paths, cAttr \in AttrNames, cData \in Values,
        flags \in XattrFlags, kind \in HandleKinds :
       setXattrCall(p, relPath, cAttr, cData, flags, kind)
  \/ \E p \in Procs, fault \in BOOLEAN : setXattrSyscall(p, fault)
  \/ \E p \in Procs, relPath \in Paths, cAttr \in AttrNames, kind \in HandleKinds :
       removeXAttrCall(p, relPath, cAttr, kind)
  \/ \E p \in Procs, fault \in BOOLEAN : removeXAttrSyscall(p, fault)
  \/ \E p \in Procs, relPath \in Paths, kind \in HandleKinds :
       listXAttrCall(p, relPath, kind)
  \/ \E p \in Procs, fault \in BOOLEAN : listXAttrSyscall(p, fault)
  \/ \E p \in Procs : Release(p)
  \/ \E src \in Paths, dst \in Paths : EnvRename(src, dst)
  \/ \E path \in Paths, target \in Paths : EnvSymlink(path, target)

Spec == Init /\ [][Next]_vars

(* ============================ properties ============================== *)
AllIdle == \A p \in Procs : proc[p].pc = "idle"

OwnedBy(p) == {fd \in Fds : fdTable[fd] # Closed /\ fdTable[fd].owner = p}

(* out holds the return of an operation whose getFileFd failed. *)
ReturnedEarly == out.pc = "returned" /\ out.acq # "OK"

(* out holds the return of an operation that went through its syscall. *)
ReturnedLate == out.pc = "returned" /\ out.acq = "OK"

(* C1: an operation whose getFileFd succeeded has released the handle it   *)
(* got exactly once by the time it returns, whether its attribute syscall  *)
(* succeeded or failed, and that release closed its own, still open,       *)
(* descriptor; once every operation has returned, no descriptor is open.   *)
C1_ReleasedExactlyOnce ==
  /\ ReturnedLate => out.rel = 1 /\ out.relOwner = "self"
  /\ \A p \in Procs : proc[p].pc \in {"syscall", "release"} =>
       proc[p].rel = 0 /\ proc[p].acq = "OK"
  /\ AllIdle => \A fd \in Fds : fdTable[fd] = Closed

(* Three operations are over, the last one with a failed attribute syscall,*)
(* and the descriptor table is back to empty.                              *)
C1_Witness ==
  /\ ReturnedLate
  /\ out.status # "OK"
  /\ out.rel = 1
  /\ Total(nOps) = MaxOps
  /\ AllIdle
  /\ \A fd \in Fds : fdTable[fd] = Closed

(* C9: a worker in flight owns exactly its one handle, which stays open    *)
(* from getFileFd until its own deferred Release; an idle worker owns      *)
(* none; the path of every attribute syscall resolved through the issuing  *)
(* worker's own open descriptor; and a Release closes only the releasing   *)
(* worker's own descriptor.                                                *)
C9_HandleOwnership ==
  /\ \A p \in Procs :
       /\ proc[p].pc = "idle" => OwnedBy(p) = {}
       /\ proc[p].pc \in {"syscall", "release"} =>
            /\ OwnedBy(p) = {proc[p].fd}
            /\ proc[p].file.fd = proc[p].fd
            /\ fdTable[proc[p].fd] = OpenFile(proc[p].ino, p)
       /\ proc[p].sys.issued =>
            proc[p].sys.owner = p /\ proc[p].sys.ino = proc[p].ino
  /\ ReturnedLate => out.relOwner = "self" /\ out.rel = 1
  /\ out.pc = "returned" => OwnedBy(out.who) = {}

(* Two operations are in flight at once, one past its syscall and one not  *)
(* yet, each on its own descriptor.                                        *)
C9_Witness ==
  \E p, q \in Procs :
    /\ p # q
    /\ proc[p].pc = "release"
    /\ proc[q].pc = "syscall"
    /\ proc[p].fd # proc[q].fd
    /\ proc[p].ino = proc[q].ino

(* C10: when the handle fs.Open returned is not a *File, getFileFd has     *)
(* warned, released that handle once and returned no handle with EIO; the  *)
(* operation returns EIO without an attribute syscall and without a        *)
(* release of its own, and the opened descriptor is closed again.          *)
C10_MiscastIsEIO ==
  /\ out.miscast =>
       /\ out.pc = "returned"
       /\ out.acq = "EIO"
       /\ out.status = "EIO"
       /\ out.warned
       /\ out.rel = 1
       /\ out.file = NoHandle
       /\ out.fd = -1
       /\ ~out.sys.issued
       /\ OwnedBy(out.who) = {}
  /\ \A p \in Procs : ~proc[p].miscast /\ ~proc[p].warned
  /\ out.warned => out.miscast

C10_Witness ==
  /\ out.miscast
  /\ out.op = "get"
  /\ out.status = "EIO"
  /\ out.rel = 1
  /\ \E p \in Procs : p # out.who /\ proc[p].pc = "syscall"

(* Attribute storage is what the successful setXattr and removeXAttr       *)
(* calls made of the inodes their opens resolved.                          *)
AttrsAgree ==
  \A i \in Inodes, n \in AttrNames :
    attrs[i][n] = IF hist[i][n].state = "set" THEN Present(hist[i][n].val) ELSE Absent

(* C2: every attribute syscall is addressed to /proc/self/fd/<fd> of the   *)
(* descriptor its own operation opened, never to a name of the backing     *)
(* directory, and it reaches the inode that open resolved even when the    *)
(* name has been renamed or replaced by a symlink in between; set and      *)
(* remove change the attributes of that inode only.                        *)
C2_SyscallThroughOwnFd ==
  /\ \A p \in Procs : proc[p].sys.issued =>
       /\ proc[p].sys.target = <<"proc", "self", "fd", Itoa(proc[p].fd)>>
       /\ proc[p].sys.target \notin Paths
       /\ proc[p].sys.ino = proc[p].ino
       /\ proc[p].sys.owner = p
  /\ AttrsAgree

(* A setXattr succeeded although its path had been replaced by a symlink   *)
(* to the other file after the open: the attribute is on the opened inode  *)
(* and the other inode carries nothing.                                    *)
C2_Witness ==
  \E p \in Procs :
    /\ proc[p].pc = "release"
    /\ proc[p].op = "set"
    /\ proc[p].status = "OK"
    /\ proc[p].sys.moved
    /\ \E path \in Paths : dir[path].kind = "symlink"
    /\ attrs[proc[p].ino][proc[p].cAttr] # Absent
    /\ \A i \in Inodes \ {proc[p].ino}, n \in AttrNames : attrs[i][n] = Absent

(* The name starts with "user.", spelled out character by character. *)
StartsWithUserDot(n) ==
  /\ Len(n) >= 5
  /\ n[1] = "u" /\ n[2] = "s" /\ n[3] = "e" /\ n[4] = "r" /\ n[5] = "."

ProbeNames ==
  AttrNames \cup
  { <<>>, <<"u","s","e","r">>, <<"u","s","e","r",".">>, <<"u","s","e","r","a">>,
    <<"U","s","e","r",".","a">>, <<"x","u","s","e","r",".">>,
    <<"s","e","c","u","r","i","t","y",".","u","s","e","r",".">> }

(* C3 as stated: getXattr and removeXAttr never issue a syscall for a name *)
(* the filter disallows, and listXAttr returns no such name, whatever name *)
(* is passed in and whatever the file carries.                             *)
C3_NoDisallowedNameEver ==
  \A p \in Procs :
    /\ proc[p].sys.issued /\ proc[p].op \in {"get", "remove"} =>
         ~disallowedXAttrName(proc[p].sys.name)
    /\ proc[p].pc = "release" /\ proc[p].op = "list" =>
         \A n \in Range(proc[p].ret.val) : ~disallowedXAttrName(n)

(* C3 amended: disallowedXAttrName is true exactly of the names that do    *)
(* not start with "user."; the gateway applies no filter of its own:       *)
(* getXattr, setXattr and removeXAttr issue their syscall for exactly the  *)
(* name they were given, so for a disallowed name only when the caller     *)
(* passed one, and listXAttr returns only names stored on the file.        *)
C3_FilterIsCallersJob ==
  /\ \A n \in ProbeNames : disallowedXAttrName(n) <=> ~StartsWithUserDot(n)
  /\ \A p \in Procs :
       /\ proc[p].sys.issued /\ proc[p].op \in {"get", "set", "remove"} =>
            /\ proc[p].sys.name = proc[p].cAttr
            /\ ~disallowedXAttrName(proc[p].cAttr) => StartsWithUserDot(proc[p].sys.name)
       /\ proc[p].pc = "release" /\ proc[p].op = "list" /\ ~proc[p].faulted =>
            \A n \in Range(proc[p].ret.val) : n \in proc[p].expNames

(* listXAttr returned a name outside "user." that an earlier setXattr had  *)
(* stored.                                                                 *)
C3_Witness ==
  \E p \in Procs :
    /\ proc[p].pc = "release"
    /\ proc[p].op = "list"
    /\ proc[p].status = "OK"
    /\ \E n \in Range(proc[p].ret.val) : disallowedXAttrName(n)

(* C4: when the path is a symlink getFileFd fails with ELOOP; listXAttr    *)
(* then returns an empty list with OK, the other three return ELOOP; no    *)
(* attribute syscall is issued, no handle is held, and the step changes    *)
(* neither attribute storage nor the descriptor table.                     *)
C4_SymlinkELOOP ==
  /\ [](/\ ReturnedEarly /\ dir[out.relPath].kind = "symlink" => out.acq = "ELOOP"
        /\ out.pc = "returned" /\ out.acq = "ELOOP" =>
             /\ dir[out.relPath].kind = "symlink"
             /\ out.op = "list" => out.status = "OK" /\ out.ret = NilSlice
             /\ out.op # "list" => out.status = "ELOOP"
             /\ ~out.sys.issued
             /\ out.file = NoHandle
             /\ out.rel = 0)
  /\ [][out'.pc = "returned" /\ out'.acq = "ELOOP" /\ nOps' # nOps =>
          attrs' = attrs /\ fdTable' = fdTable]_vars

C4_Witness ==
  /\ out.pc = "returned"
  /\ out.op = "list"
  /\ out.acq = "ELOOP"
  /\ out.status = "OK"
  /\ dir[out.relPath].kind = "symlink"
  /\ \E i \in Inodes, n \in AttrNames : attrs[i][n] # Absent

(* C5: when getFileFd fails, the operation returns the status getFileFd    *)
(* gave (listXAttr turns ELOOP into an empty OK), issues no attribute      *)
(* syscall, holds no handle and runs no Release of its own (when fs.Open   *)
(* failed nothing is released at all), and the attribute storage of every  *)
(* file is as it was.                                                      *)
C5_AcquisitionFailureShortCircuits ==
  /\ [](ReturnedEarly =>
          /\ out.status = IF out.op = "list" /\ out.acq = "ELOOP" THEN "OK" ELSE out.acq
          /\ out.ret = NilSlice
          /\ ~out.sys.issued
          /\ out.file = NoHandle
          /\ out.fd = -1
          /\ out.rel = IF out.miscast THEN 1 ELSE 0
          /\ out.relOwner = "none")
  /\ [][out'.pc = "returned" /\ out'.acq # "OK" /\ nOps' # nOps =>
          /\ attrs' = attrs
          /\ hist' = hist
          /\ \A fd \in Fds : fdTable'[fd] = fdTable[fd]]_vars

C5_Witness ==
  /\ ReturnedEarly
  /\ out.op = "remove"
  /\ out.acq = "ENOENT"
  /\ out.status = "ENOENT"
  /\ \E i \in Inodes, n \in AttrNames : attrs[i][n] # Absent

(* C6: a getXattr that follows a successful setXattr of the same name on   *)
(* the same file, with no successful set or remove of that name in         *)
(* between, returns OK and exactly the value that was set (the kernel not  *)
(* failing the getxattr itself).                                           *)
C6_RoundTrip ==
  \A p \in Procs :
    proc[p].pc = "release" /\ proc[p].op = "get" /\ ~proc[p].faulted
      /\ proc[p].expect.state = "set" =>
        /\ proc[p].status = "OK"
        /\ proc[p].ret = Slice(proc[p].expect.val)

C6_Witness ==
  \E p \in Procs :
    /\ proc[p].pc = "release"
    /\ proc[p].op = "get"
    /\ proc[p].expect = WasSet(<<1>>)
    /\ proc[p].status = "OK"
    /\ proc[p].ret = Slice(<<1>>)

(* C7: a getXattr of a name that was set and then removed returns ENODATA  *)
(* and no value; a removeXAttr of a name that is not there returns ENODATA *)
(* too; and a removeXAttr that fails leaves all attributes as they were.   *)
C7_RemovedIsNotFound ==
  /\ [](\A p \in Procs :
          proc[p].pc = "release" /\ ~proc[p].faulted /\ proc[p].expect.state # "set" =>
            /\ proc[p].op = "get" => proc[p].status = "ENODATA" /\ proc[p].ret = NilSlice
            /\ proc[p].op = "remove" => proc[p].status = "ENODATA")
  /\ [][\A p \in Procs :
          proc[p].pc = "syscall" /\ proc'[p].pc = "release" /\ proc'[p].op = "remove"
            /\ proc'[p].status # "OK" => attrs' = attrs]_vars

C7_Witness ==
  \E p \in Procs :
    /\ proc[p].pc = "release"
    /\ proc[p].op = "get"
    /\ proc[p].expect = Removed
    /\ proc[p].status = "ENODATA"
    /\ proc[p].ret = NilSlice

(* C8: listXAttr returns, each once and in some order, exactly the names   *)
(* that were set on the file and not removed afterwards (the kernel not    *)
(* failing the listxattr itself).                                          *)
C8_ListExact ==
  \A p \in Procs :
    proc[p].pc = "release" /\ proc[p].op = "list" /\ ~proc[p].faulted =>
      /\ proc[p].status = "OK"
      /\ ~proc[p].ret.nil
      /\ Range(proc[p].ret.val) = proc[p].expNames
      /\ Len(proc[p].ret.val) = Cardinality(proc[p].expNames)

C8_Witness ==
  \E p \in Procs :
    /\ proc[p].pc = "release"
    /\ proc[p].op = "list"
    /\ proc[p].status = "OK"
    /\ Range(proc[p].ret.val) = AttrNames
    /\ proc[p].expNames = AttrNames

=============================================================================
